---- MODULE Spec2Model ----
(***************************************************************************)
(* A model of the iTunes export compiler (archive/compile_itunes_exports.py)*)
(* and of the web-data builder (scripts/build_web_data.py).                 *)
(*                                                                          *)
(* Text.  A file's content is the sequence of its physical lines, and a     *)
(* line is the sequence of its tab-separated fields, so content == the      *)
(* fields joined by "\t" and the lines joined by "\n".  Every line has at   *)
(* least one field (the empty line is <<"">>), and the empty file is        *)
(* << <<"">> >>, as str.split gives it.  Field values are TLA+ strings; the *)
(* only values made of whitespace alone are "" and " ", and no other value  *)
(* starts or ends with whitespace, so str.strip() acts on whole fields.     *)
(***************************************************************************)
EXTENDS Integers, Sequences, FiniteSets, TLC

VARIABLES
    pc,      \* position of the operation under way
    call,    \* the argument of the function under check
    detected,\* <<>>, then <<[line, verdict]>>: a call of detect_header_pattern
    ret,     \* <<>> while the function has not returned, then <<its result>>
    tree,             \* the directory tree: path -> [readable, lines]
    export_files,     \* main's list of files to parse
    i,                \* main's position in export_files, from 1
    all_rows,
    all_headers_sets,
    all_errors,
    file_formats,
    stats,
    unified_headers,
    deduped_rows,
    duplicates_found,
    output_csv,       \* <<>>, then <<the CSV written>>
    report,           \* <<>>, then <<the validation report written>>
    exit_status,      \* <<>>, then <<what main returned>>
    rows_read,        \* build_web_data: the rows the reader has yielded
    tracks,
    artists_map,      \* the entries of the dict, in insertion order
    albums_map,
    chunks,           \* the chunk files written so far
    artists_index,    \* <<>>, then <<artists-index.json>>
    albums_index      \* <<>>, then <<albums-index.json>>

fnvars == <<call, detected, ret>>

webvars ==
    <<rows_read, tracks, artists_map, albums_map, chunks, artists_index, albums_index>>

mainvars ==
    <<tree, export_files, i, all_rows, all_headers_sets, all_errors, file_formats,
      stats, unified_headers, deduped_rows, duplicates_found, output_csv, report,
      exit_status>>

vars == <<pc, fnvars, mainvars, webvars>>

----------------------------------------------------------------------------
(* Sequences, as Python lists.                                              *)

Range(s) == {s[k] : k \in 1..Len(s)}

Min(a, b) == IF a <= b THEN a ELSE b

\* s[:n]
Take(s, n) == SubSeq(s, 1, Min(n, Len(s)))

\* s[n:]
Drop(s, n) == SubSeq(s, n + 1, Len(s))

\* the sequences over S of length at most n
RECURSIVE SeqsUpTo(_, _)
SeqsUpTo(S, n) ==
    IF n = 0 THEN {<<>>}
    ELSE LET shorter == SeqsUpTo(S, n - 1)
         IN  shorter \cup {Append(s, x) : s \in shorter, x \in S}

\* s.index(x) + 1: the 1-based position of the first x in s (x occurs in s)
FirstIndex(s, x) == CHOOSE k \in 1..Len(s) : s[k] = x /\ \A j \in 1..(k - 1) : s[j] # x

\* the 1-based position of the last x in s (x occurs in s)
LastIndex(s, x) == CHOOSE k \in 1..Len(s) : s[k] = x /\ \A j \in (k + 1)..Len(s) : s[j] # x

----------------------------------------------------------------------------
(* str.strip() and str.split() on the content of a file.                    *)

\* field.strip() == ""
IsBlankField(f) == f \in {"", " "}

\* line.strip() == "": every field of the line is whitespace
IsBlankLine(line) == \A k \in 1..Len(line) : IsBlankField(line[k])

RECURSIVE LStripFields(_)
LStripFields(fs) ==
    IF fs = <<>> THEN <<>>
    ELSE IF IsBlankField(Head(fs)) THEN LStripFields(Tail(fs))
    ELSE fs

RECURSIVE RStripFields(_)
RStripFields(fs) ==
    IF fs = <<>> THEN <<>>
    ELSE IF IsBlankField(fs[Len(fs)]) THEN RStripFields(SubSeq(fs, 1, Len(fs) - 1))
    ELSE fs

RECURSIVE LStripLines(_)
LStripLines(ls) ==
    IF ls = <<>> THEN <<>>
    ELSE LET l == LStripFields(Head(ls))
         IN  IF l = <<>> THEN LStripLines(Tail(ls)) ELSE <<l>> \o Tail(ls)

RECURSIVE RStripLines(_)
RStripLines(ls) ==
    IF ls = <<>> THEN <<>>
    ELSE LET l == RStripFields(ls[Len(ls)])
         IN  IF l = <<>> THEN RStripLines(SubSeq(ls, 1, Len(ls) - 1))
             ELSE SubSeq(ls, 1, Len(ls) - 1) \o <<l>>

\* mutant: the split of an empty content gives no line at all
SplitGivesNoLines(ls) == RStripLines(LStripLines(ls))

\* content.strip().split('\n'), each line then split('\t')
StripSplitLines(ls) ==
    LET s == RStripLines(LStripLines(ls))
    IN  IF s = <<>> THEN << <<"">> >> ELSE s

\* f.readline().strip().split('\t'): the first physical line, stripped
ReadlineStrip(ls) ==
    LET s == RStripFields(LStripFields(ls[1]))
    IN  IF s = <<>> THEN <<"">> ELSE s

----------------------------------------------------------------------------
(* detect_header_pattern                                                    *)

HeaderScanWidth == 15

HeaderMatchThreshold == 5

FallbackSplitCap == 27

InlineSlack == 5

DetectStandardHeaders ==
    {"Name", "Artist", "Composer", "Album", "Genre", "Size",
     "Time", "Track Number", "Year", "Date", "Location"}

\* mutant: the scan is not limited to the first 15 fields
header_matches_whole_line(fields) ==
    Cardinality({k \in 1..Len(fields) : fields[k] \in DetectStandardHeaders})

header_matches(fields) ==
    Cardinality({k \in 1..Min(HeaderScanWidth, Len(fields)) :
                    fields[k] \in DetectStandardHeaders})

\* mutant: 'Location' is looked for among the scanned fields only
detect_header_pattern_scanned_location(fields) ==
    IF header_matches(fields) >= HeaderMatchThreshold
    THEN IF "Location" \in Range(Take(fields, HeaderScanWidth))
         THEN [has_header |-> TRUE,
               num_header_fields |-> (FirstIndex(fields, "Location") - 1) + 1]
         ELSE [has_header |-> TRUE,
               num_header_fields |-> Min(FallbackSplitCap, Len(fields) \div 2)]
    ELSE [has_header |-> FALSE, num_header_fields |-> 0]

detect_header_pattern(fields) ==
    IF header_matches(fields) >= HeaderMatchThreshold
    THEN IF "Location" \in Range(fields)
         THEN [has_header |-> TRUE,
               num_header_fields |-> (FirstIndex(fields, "Location") - 1) + 1]
         ELSE [has_header |-> TRUE,
               num_header_fields |-> Min(FallbackSplitCap, Len(fields) \div 2)]
    ELSE [has_header |-> FALSE, num_header_fields |-> 0]

----------------------------------------------------------------------------
(* parse_export_file                                                        *)

standard_headers ==
    <<"Name", "Artist", "Composer", "Album", "Grouping", "Genre",
      "Size", "Time", "Disc Number", "Disc Count", "Track Number", "Track Count",
      "Year", "Date Modified", "Date", "Date Added",
      "Bit Rate", "Sample Rate", "Volume Adjustment",
      "Kind", "Equalizer", "Comments",
      "Play Count", "Last Played", "My Rating",
      "Location">>

ProvenanceColumns == {"_source_file", "_line_number"}

\* The dict built by "for i, header in enumerate(headers)" and the two
\* provenance assignments after it: a header that occurs twice keeps the value
\* of its last position, and the provenance keys overwrite a like-named header.
MakeRow(headers, fields, name, line_num) ==
    [h \in Range(headers) \cup ProvenanceColumns |->
        IF h = "_line_number" THEN line_num
        ELSE IF h = "_source_file" THEN name
        ELSE LET k == LastIndex(headers, h)
             IN  IF k <= Len(fields) THEN fields[k] ELSE ""]

\* the loop "for line_num, line in enumerate(lines[start_line:], ...)" from
\* the line at 1-based position k on
RECURSIVE DataRows(_, _, _, _)
DataRows(headers, lines, name, k) ==
    IF k > Len(lines) THEN <<>>
    ELSE (IF IsBlankLine(lines[k]) THEN <<>>
          ELSE <<MakeRow(headers, lines[k], name, k)>>)
         \o DataRows(headers, lines, name, k + 1)

ErrorReading(name) == [error |-> "Error reading", file |-> name]

EmptyFileError(name) == [error |-> "Empty file", file |-> name]

\* mutant: the exception of a failed read is swallowed without a message
ReadFailureSilent(file) == [headers |-> <<>>, rows |-> <<>>, errors |-> <<>>]

\* "except Exception as e" around the read: nothing was added to headers or
\* rows before open() or read() raised
ReadFailure(file) ==
    [headers |-> <<>>, rows |-> <<>>, errors |-> <<ErrorReading(file.name)>>]

\* mutant: ">=" for ">" in the inline test
FormatBranchGe(first_fields) ==
    LET d == detect_header_pattern(first_fields)
    IN  IF d.has_header
        THEN IF Len(first_fields) >= d.num_header_fields + InlineSlack
             THEN "header+data" ELSE "separate_header"
        ELSE "no_header"

\* the branch of parse_export_file taken for a first line
FormatBranch(first_fields) ==
    LET d == detect_header_pattern(first_fields)
    IN  IF d.has_header
        THEN IF Len(first_fields) > d.num_header_fields + InlineSlack
             THEN "header+data" ELSE "separate_header"
        ELSE "no_header"

\* file: [name: the file's name, readable: whether open/read succeed,
\*        lines: its content]
parse_export_file(file) ==
    IF ~file.readable
    THEN ReadFailure(file)
    ELSE
    LET lines == StripSplitLines(file.lines)
    IN  IF lines = <<>>
        THEN [headers |-> <<>>, rows |-> <<>>, errors |-> <<EmptyFileError(file.name)>>]
        ELSE
        LET first_fields == lines[1]
            d == detect_header_pattern(first_fields)
            branch == FormatBranch(first_fields)
            headers == IF d.has_header THEN Take(first_fields, d.num_header_fields)
                       ELSE standard_headers
            first_rows == IF branch = "header+data"
                          THEN <<MakeRow(headers, Drop(first_fields, d.num_header_fields),
                                         file.name, 1)>>
                          ELSE <<>>
            start_line == IF d.has_header THEN 1 ELSE 0
        IN  [headers |-> headers,
             rows |-> first_rows \o DataRows(headers, lines, file.name, start_line + 1),
             errors |-> <<>>]

----------------------------------------------------------------------------
(* Strings as code points: Python orders str by code point, and the globs   *)
(* of find_all_export_files inspect the characters of a file name.          *)

CodePoints(s) ==
    CASE s = "Name" -> <<78, 97, 109, 101>>
      [] s = "Artist" -> <<65, 114, 116, 105, 115, 116>>
      [] s = "Composer" -> <<67, 111, 109, 112, 111, 115, 101, 114>>
      [] s = "Album" -> <<65, 108, 98, 117, 109>>
      [] s = "Grouping" -> <<71, 114, 111, 117, 112, 105, 110, 103>>
      [] s = "Genre" -> <<71, 101, 110, 114, 101>>
      [] s = "Size" -> <<83, 105, 122, 101>>
      [] s = "Time" -> <<84, 105, 109, 101>>
      [] s = "Disc Number" -> <<68, 105, 115, 99, 32, 78, 117, 109, 98, 101, 114>>
      [] s = "Disc Count" -> <<68, 105, 115, 99, 32, 67, 111, 117, 110, 116>>
      [] s = "Track Number" -> <<84, 114, 97, 99, 107, 32, 78, 117, 109, 98, 101, 114>>
      [] s = "Track Count" -> <<84, 114, 97, 99, 107, 32, 67, 111, 117, 110, 116>>
      [] s = "Year" -> <<89, 101, 97, 114>>
      [] s = "Date Modified" -> <<68, 97, 116, 101, 32, 77, 111, 100, 105, 102, 105, 101, 100>>
      [] s = "Date" -> <<68, 97, 116, 101>>
      [] s = "Date Added" -> <<68, 97, 116, 101, 32, 65, 100, 100, 101, 100>>
      [] s = "Bit Rate" -> <<66, 105, 116, 32, 82, 97, 116, 101>>
      [] s = "Sample Rate" -> <<83, 97, 109, 112, 108, 101, 32, 82, 97, 116, 101>>
      [] s = "Volume Adjustment" -> <<86, 111, 108, 117, 109, 101, 32, 65, 100, 106, 117, 115, 116, 109, 101, 110, 116>>
      [] s = "Kind" -> <<75, 105, 110, 100>>
      [] s = "Equalizer" -> <<69, 113, 117, 97, 108, 105, 122, 101, 114>>
      [] s = "Comments" -> <<67, 111, 109, 109, 101, 110, 116, 115>>
      [] s = "Play Count" -> <<80, 108, 97, 121, 32, 67, 111, 117, 110, 116>>
      [] s = "Last Played" -> <<76, 97, 115, 116, 32, 80, 108, 97, 121, 101, 100>>
      [] s = "My Rating" -> <<77, 121, 32, 82, 97, 116, 105, 110, 103>>
      [] s = "Location" -> <<76, 111, 99, 97, 116, 105, 111, 110>>
      [] s = "_source_file" -> <<95, 115, 111, 117, 114, 99, 101, 95, 102, 105, 108, 101>>
      [] s = "_line_number" -> <<95, 108, 105, 110, 101, 95, 110, 117, 109, 98, 101, 114>>
      [] s = "BPM" -> <<66, 80, 77>>
      [] s = "Artwork" -> <<65, 114, 116, 119, 111, 114, 107>>
      [] s = "bpm" -> <<98, 112, 109>>
      [] s = "" -> <<>>
      [] s = "a.txt" -> <<97, 46, 116, 120, 116>>
      [] s = "b" -> <<98>>
      [] s = "Library.export.txt" -> <<76, 105, 98, 114, 97, 114, 121, 46, 101, 120, 112, 111, 114, 116, 46, 116, 120, 116>>
      [] s = ".txt" -> <<46, 116, 120, 116>>
      [] s = "Library.export" -> <<76, 105, 98, 114, 97, 114, 121, 46, 101, 120, 112, 111, 114, 116>>
      [] s = "validation_report.txt" -> <<118, 97, 108, 105, 100, 97, 116, 105, 111, 110, 95, 114, 101, 112, 111, 114, 116, 46, 116, 120, 116>>
      [] s = "compiled_itunes_library.csv" -> <<99, 111, 109, 112, 105, 108, 101, 100, 95, 105, 116, 117, 110, 101, 115, 95, 108, 105, 98, 114, 97, 114, 121, 46, 99, 115, 118>>
      [] s = "compile_itunes_exports.py" -> <<99, 111, 109, 112, 105, 108, 101, 95, 105, 116, 117, 110, 101, 115, 95, 101, 120, 112, 111, 114, 116, 115, 46, 112, 121>>
      [] s = "Library.export2019" -> <<76, 105, 98, 114, 97, 114, 121, 46, 101, 120, 112, 111, 114, 116, 50, 48, 49, 57>>

\* a < b on sequences of numbers, as Python compares two str (or two lists)
RECURSIVE SeqLess(_, _)
SeqLess(a, b) ==
    IF b = <<>> THEN FALSE
    ELSE IF a = <<>> THEN TRUE
    ELSE IF Head(a) # Head(b) THEN Head(a) < Head(b)
    ELSE SeqLess(Tail(a), Tail(b))

StrLess(a, b) == SeqLess(CodePoints(a), CodePoints(b))

\* sorted(S) for a set S of str
RECURSIVE SortedStrings(_)
SortedStrings(S) ==
    IF S = {} THEN <<>>
    ELSE LET m == CHOOSE x \in S : \A y \in S \ {x} : StrLess(x, y)
         IN  <<m>> \o SortedStrings(S \ {m})

\* a and p are sequences of code points
startswith(a, p) == Len(p) <= Len(a) /\ SubSeq(a, 1, Len(p)) = p

endswith(a, p) == Len(p) <= Len(a) /\ SubSeq(a, Len(a) - Len(p) + 1, Len(a)) = p

----------------------------------------------------------------------------
(* find_all_export_files.  A path is the sequence of its parts below the    *)
(* base directory; the tree maps each file's path to the file.              *)

exclude_files ==
    {"validation_report.txt", "compiled_itunes_library.csv", "compile_itunes_exports.py"}

\* filepath.name
PathName(p) == p[Len(p)]

\* Path.__lt__: the parts of the two paths compared as lists of str
RECURSIVE PathLess(_, _)
PathLess(p, q) ==
    IF q = <<>> THEN FALSE
    ELSE IF p = <<>> THEN TRUE
    ELSE IF Head(p) # Head(q) THEN StrLess(Head(p), Head(q))
    ELSE PathLess(Tail(p), Tail(q))

\* what a glob yields: the matching paths, each once, in the file system's order
RECURSIVE GlobOrder(_)
GlobOrder(S) ==
    IF S = {} THEN <<>>
    ELSE LET p == CHOOSE x \in S : TRUE
         IN  <<p>> \o GlobOrder(S \ {p})

\* p put into the sorted list s, after the elements not greater than it
RECURSIVE InsertPath(_, _)
InsertPath(s, p) ==
    IF s = <<>> THEN <<p>>
    ELSE IF PathLess(p, Head(s)) THEN <<p>> \o s
    ELSE <<Head(s)>> \o InsertPath(Tail(s), p)

\* sorted(files) for a list of paths
RECURSIVE sorted(_)
sorted(files) ==
    IF files = <<>> THEN <<>>
    ELSE InsertPath(sorted(SubSeq(files, 1, Len(files) - 1)), files[Len(files)])

\* mutant: the list is returned as the globs gave it
unsorted(files) == files

find_all_export_files(t) ==
    LET txt_files == {p \in DOMAIN t : endswith(CodePoints(PathName(p)), CodePoints(".txt"))}
        kept == {p \in txt_files : PathName(p) \notin exclude_files}
        export == {p \in DOMAIN t : startswith(CodePoints(PathName(p)), CodePoints("Library.export"))}
    IN  sorted(GlobOrder(kept) \o GlobOrder(export))

----------------------------------------------------------------------------
(* get_unified_headers                                                      *)

preferred_order ==
    <<"Name", "Artist", "Composer", "Album", "Grouping", "Genre",
      "Size", "Time", "Disc Number", "Disc Count", "Track Number", "Track Count",
      "Year", "Date Modified", "Date", "Date Added",
      "Bit Rate", "Sample Rate", "Volume Adjustment",
      "Kind", "Equalizer", "Comments",
      "Play Count", "Last Played", "My Rating",
      "Location">>

\* mutant: the names outside the preferred list are not added
get_unified_headers_preferred_only(all_headers) ==
    LET all_fields == UNION Range(all_headers)
        InAllFields(field) == field \in all_fields
    IN  SelectSeq(preferred_order, InAllFields) \o <<"_source_file", "_line_number">>

\* mutant: the remaining names are added as the header sets bring them
RECURSIVE FirstSeenOrder(_, _)
FirstSeenOrder(all_headers, done) ==
    IF all_headers = <<>> THEN <<>>
    ELSE LET new == GlobOrder(Head(all_headers) \ done)
         IN  new \o FirstSeenOrder(Tail(all_headers), done \cup Head(all_headers))

get_unified_headers_first_seen(all_headers) ==
    LET all_fields == UNION Range(all_headers)
        InAllFields(field) == field \in all_fields
        unified == SelectSeq(preferred_order, InAllFields)
    IN  unified
        \o FirstSeenOrder(all_headers, Range(unified) \cup ProvenanceColumns)
        \o <<"_source_file", "_line_number">>

\* all_headers: a list of sets of names
get_unified_headers(all_headers) ==
    LET all_fields == UNION Range(all_headers)
        InAllFields(field) == field \in all_fields
        unified == SelectSeq(preferred_order, InAllFields)
        remaining == SortedStrings((all_fields \ Range(unified)) \ ProvenanceColumns)
    IN  unified \o remaining \o <<"_source_file", "_line_number">>

----------------------------------------------------------------------------
(* main: the duplicate removal, the outputs, the exit status                *)

\* row.get(key, default)
Get(row, key, default) == IF key \in DOMAIN row THEN row[key] ELSE default

IsContentColumn(field) == field \notin {"_source_file", "_line_number"}

\* mutant: the provenance columns are part of the compared content
content_tuple_with_provenance(row, unified) ==
    [k \in 1..Len(unified) |-> Get(row, unified[k], "")]

content_tuple(row, unified) ==
    LET cols == SelectSeq(unified, IsContentColumn)
    IN  [k \in 1..Len(cols) |-> Get(row, cols[k], "")]

DuplicateNote(row) ==
    [name |-> Get(row, "Name", "Unknown"),
     artist |-> Get(row, "Artist", "Unknown"),
     source |-> Get(row, "_source_file", "Unknown")]

\* the loop "for row in all_rows" from the given rows on: acc holds
\* deduped_rows and duplicates_found so far
RECURSIVE DedupLoop(_, _, _, _)
DedupLoop(rows, unified, seen, acc) ==
    IF rows = <<>> THEN acc
    ELSE LET row == Head(rows)
             ct == content_tuple(row, unified)
         IN  IF ct \in seen
             THEN DedupLoop(Tail(rows), unified, seen,
                            [acc EXCEPT !.duplicates_found = Append(@, DuplicateNote(row))])
             ELSE DedupLoop(Tail(rows), unified, seen \cup {ct},
                            [acc EXCEPT !.deduped_rows = Append(@, row)])

\* mutant: a later duplicate replaces the record kept before it
RECURSIVE DedupKeepLast(_, _)
DedupKeepLast(rows, unified) ==
    IF rows = <<>> THEN [deduped_rows |-> <<>>, duplicates_found |-> <<>>]
    ELSE LET front == SubSeq(rows, 1, Len(rows) - 1)
             row == rows[Len(rows)]
             IsOther(r) == content_tuple(r, unified) # content_tuple(row, unified)
             rest == DedupKeepLast(SelectSeq(front, IsOther), unified)
         IN  [rest EXCEPT !.deduped_rows = Append(@, row)]

Deduplicate(rows, unified) ==
    DedupLoop(rows, unified, {}, [deduped_rows |-> <<>>, duplicates_found |-> <<>>])

\* mutant: a record is written with the values of its own columns only
CsvOfOwnColumns(unified, rows) ==
    [fieldnames |-> unified,
     rows |-> [j \in 1..Len(rows) |->
                 LET own(field) == field \in DOMAIN rows[j]
                     columns == SelectSeq(unified, own)
                 IN  [k \in 1..Len(columns) |-> rows[j][columns[k]]]]]

\* csv.DictWriter(fieldnames=unified, extrasaction='ignore'): the header row,
\* then per record its value for each field name, '' where it has none
CsvOf(unified, rows) ==
    [fieldnames |-> unified,
     rows |-> [j \in 1..Len(rows) |->
                 [k \in 1..Len(unified) |-> Get(rows[j], unified[k], "")]]]

ReportInlineSlack == 5

\* main's own reading of a file's format, from f.readline().strip()
format_of(first_fields) ==
    LET d == detect_header_pattern(first_fields)
        field_count == Len(first_fields)
    IN  IF d.has_header /\ field_count > d.num_header_fields + ReportInlineSlack
        THEN [format_type |-> "header+data", field_count |-> field_count]
        ELSE IF d.has_header
        THEN [format_type |-> "separate_header", field_count |-> field_count]
        ELSE [format_type |-> "no_header", field_count |-> field_count]

\* mutant: success is reported when no file had an error
ExitStatusByErrors(st) == IF st.files_with_errors = 0 THEN 0 ELSE 1

ExitStatus(st) == IF st.unique_songs > 0 THEN 0 ELSE 1

----------------------------------------------------------------------------
(* build_web_data.  Text is a sequence of code points; the model covers     *)
(* ASCII, where str.lower() adds 32 to the capital letters and \w is a      *)
(* letter, a digit or the underscore.  None is <<>> and a value v that is   *)
(* not None is <<v>>.                                                       *)

None == <<>>

Some(v) == <<v>>

\* str.isspace() of an ASCII character
IsSpace(c) == c \in {9, 10, 11, 12, 13, 28, 29, 30, 31, 32}

RECURSIVE lstrip(_)
lstrip(t) == IF t # <<>> /\ IsSpace(Head(t)) THEN lstrip(Tail(t)) ELSE t

RECURSIVE rstrip(_)
rstrip(t) ==
    IF t # <<>> /\ IsSpace(t[Len(t)]) THEN rstrip(SubSeq(t, 1, Len(t) - 1)) ELSE t

strip(t) == rstrip(lstrip(t))

lower(t) == [k \in 1..Len(t) |-> IF t[k] >= 65 /\ t[k] <= 90 THEN t[k] + 32 ELSE t[k]]

\* the character class \w
IsWordChar(c) ==
    \/ c >= 48 /\ c <= 57
    \/ c >= 65 /\ c <= 90
    \/ c >= 97 /\ c <= 122
    \/ c = 95

\* a character that re.sub(r'[^\w\s-]', '', text) keeps
IsSlugChar(c) == IsWordChar(c) \/ IsSpace(c) \/ c = 45

\* the character class [-\s]
IsSeparator(c) == c = 45 \/ IsSpace(c)

RECURSIVE DropSeparators(_)
DropSeparators(t) ==
    IF t # <<>> /\ IsSeparator(Head(t)) THEN DropSeparators(Tail(t)) ELSE t

\* re.sub(r'[-\s]+', '-', text)
RECURSIVE CollapseSeparators(_)
CollapseSeparators(t) ==
    IF t = <<>> THEN <<>>
    ELSE IF IsSeparator(Head(t)) THEN <<45>> \o CollapseSeparators(DropSeparators(t))
    ELSE <<Head(t)>> \o CollapseSeparators(Tail(t))

\* text.strip('-')
RECURSIVE StripHyphens(_)
StripHyphens(t) ==
    IF t # <<>> /\ Head(t) = 45 THEN StripHyphens(Tail(t))
    ELSE IF t # <<>> /\ t[Len(t)] = 45 THEN StripHyphens(SubSeq(t, 1, Len(t) - 1))
    ELSE t

\* "unknown"
SlugUnknown == <<117, 110, 107, 110, 111, 119, 110>>

slugify(text) ==
    IF text = <<>> THEN SlugUnknown
    ELSE LET result == StripHyphens(CollapseSeparators(SelectSeq(lower(text), IsSlugChar)))
         IN  IF result = <<>> THEN SlugUnknown ELSE result

\* value: None or <<text>>
safe_str(value) ==
    IF value = None THEN None
    ELSE IF strip(value[1]) = <<>> THEN None
    ELSE Some(strip(value[1]))

is_valid_name(name) ==
    IF name = <<>> THEN FALSE
    ELSE LET clean_name == strip(name)
         IN  /\ clean_name # <<>>
             /\ clean_name # <<63>>
             /\ ~(\A k \in 1..Len(clean_name) : clean_name[k] = 63)

\* the first loop of sanitize_artist_name: leading '"""' and '"' removed
RECURSIVE StripLeadingQuotes(_)
StripLeadingQuotes(name) ==
    IF startswith(name, <<34, 34, 34>>) THEN StripLeadingQuotes(Drop(name, 3))
    ELSE IF startswith(name, <<34>>) THEN StripLeadingQuotes(Drop(name, 1))
    ELSE name

\* the second loop: trailing '"""' and '"' removed
RECURSIVE StripTrailingQuotes(_)
StripTrailingQuotes(name) ==
    IF endswith(name, <<34, 34, 34>>) THEN StripTrailingQuotes(Take(name, Len(name) - 3))
    ELSE IF endswith(name, <<34>>) THEN StripTrailingQuotes(Take(name, Len(name) - 1))
    ELSE name

articles ==
    <<
      \* ", The"
      <<44, 32, 84, 104, 101>>,
      \* ", A"
      <<44, 32, 65>>,
      \* ", An"
      <<44, 32, 65, 110>>,
      \* ", Le"
      <<44, 32, 76, 101>>,
      \* ", La"
      <<44, 32, 76, 97>>,
      \* ", Los"
      <<44, 32, 76, 111, 115>>,
      \* ", Las"
      <<44, 32, 76, 97, 115>>,
      \* ", El"
      <<44, 32, 69, 108>>
    >>

\* mutant: after an article is moved, the loop goes on over the new name
RECURSIVE MoveArticleRepeatedly(_, _)
MoveArticleRepeatedly(name, arts) ==
    IF arts = <<>> THEN name
    ELSE LET article == Head(arts)
         IN  IF endswith(lower(name), lower(article))
             THEN MoveArticleRepeatedly(
                      Drop(article, 2) \o <<32>> \o Take(name, Len(name) - Len(article)),
                      articles)
             ELSE MoveArticleRepeatedly(name, Tail(arts))

\* the loop "for article in articles", from the given articles on
RECURSIVE MoveArticle(_, _)
MoveArticle(name, arts) ==
    IF arts = <<>> THEN name
    ELSE LET article == Head(arts)
         IN  IF endswith(lower(name), lower(article))
             THEN Drop(article, 2) \o <<32>> \o Take(name, Len(name) - Len(article))
             ELSE MoveArticle(name, Tail(arts))

\* name: a text
sanitize_artist_name(name) ==
    IF name = <<>> THEN name
    ELSE strip(MoveArticle(strip(StripTrailingQuotes(StripLeadingQuotes(strip(name)))),
                           articles))

\* "Unknown Artist"
UnknownArtist == <<85, 110, 107, 110, 111, 119, 110, 32, 65, 114, 116, 105, 115, 116>>

\* "Unknown Album"
UnknownAlbum == <<85, 110, 107, 110, 111, 119, 110, 32, 65, 108, 98, 117, 109>>

\* value or default: the default for None and for the empty text
OrDefault(value, default) ==
    IF value = None THEN default
    ELSE IF value[1] = <<>> THEN default
    ELSE value[1]

\* sanitize_artist_name(safe_str(row.get('Artist'))) or 'Unknown Artist'
ArtistNameOf(row) ==
    LET s == safe_str(Some(row.Artist))
    IN  OrDefault(IF s = None THEN None ELSE Some(sanitize_artist_name(s[1])),
                  UnknownArtist)

\* safe_str(row.get('Album')) or 'Unknown Album'
AlbumNameOf(row) == OrDefault(safe_str(Some(row.Album)), UnknownAlbum)

\* the position of the entry of a slug in a dict kept as the list of its
\* entries in insertion order; 0 when the slug is no key
SlugPosition(map, slug) ==
    IF \E k \in 1..Len(map) : map[k].slug = slug
    THEN CHOOSE k \in 1..Len(map) : map[k].slug = slug
    ELSE 0

\* mutant: the name of a group is set when the group is created only
IndexAddKeepFirst(map, slug, name, other, track_id) ==
    LET k == SlugPosition(map, slug)
    IN  IF k = 0
        THEN Append(map, [slug |-> slug, name |-> name, others |-> {other},
                          trackIds |-> <<track_id>>])
        ELSE [map EXCEPT ![k] = [slug |-> slug, name |-> @.name,
                                 others |-> @.others \cup {other},
                                 trackIds |-> Append(@.trackIds, track_id)]]

\* map[slug]['name'] = name; map[slug][...].add(other);
\* map[slug]['trackIds'].append(track_id), on a defaultdict
IndexAdd(map, slug, name, other, track_id) ==
    LET k == SlugPosition(map, slug)
    IN  IF k = 0
        THEN Append(map, [slug |-> slug, name |-> name, others |-> {other},
                          trackIds |-> <<track_id>>])
        ELSE [map EXCEPT ![k] = [slug |-> slug, name |-> name,
                                 others |-> @.others \cup {other},
                                 trackIds |-> Append(@.trackIds, track_id)]]

\* sorted(S) for a set S of texts
RECURSIVE SortedTexts(_)
SortedTexts(S) ==
    IF S = {} THEN <<>>
    ELSE LET m == CHOOSE x \in S : \A y \in S \ {x} : SeqLess(x, y)
         IN  <<m>> \o SortedTexts(S \ {m})

\* an entry put into a list sorted by name.lower(), after the entries whose
\* key is not greater (sorted() is stable)
RECURSIVE InsertByName(_, _)
InsertByName(s, e) ==
    IF s = <<>> THEN <<e>>
    ELSE IF SeqLess(lower(e.name), lower(Head(s).name)) THEN <<e>> \o s
    ELSE <<Head(s)>> \o InsertByName(Tail(s), e)

\* sorted(entries, key=lambda x: x['name'].lower())
RECURSIVE SortedByName(_)
SortedByName(entries) ==
    IF entries = <<>> THEN <<>>
    ELSE InsertByName(SortedByName(SubSeq(entries, 1, Len(entries) - 1)),
                      entries[Len(entries)])

\* the artist index and the album index, from the dict of either
IndexOf(map) ==
    [total |-> Len(map),
     entries |-> SortedByName([k \in 1..Len(map) |->
                    [slug |-> map[k].slug,
                     name |-> map[k].name,
                     otherCount |-> Cardinality(map[k].others),
                     trackCount |-> Len(map[k].trackIds),
                     others |-> SortedTexts(map[k].others)]])]

chunk_size == 1000

\* mutant: one more than the whole chunks
total_chunks_plus_one(n) == n \div chunk_size + 1

total_chunks(n) == (n + chunk_size - 1) \div chunk_size

\* chunk_data of the iteration j (from 0) of "for i in range(total_chunks)"
chunk_data(all_tracks, j) ==
    LET chunk_tracks == SubSeq(all_tracks, j * chunk_size + 1,
                               Min((j + 1) * chunk_size, Len(all_tracks)))
    IN  [chunk |-> j + 1,
         totalChunks |-> total_chunks(Len(all_tracks)),
         count |-> Len(chunk_tracks),
         tracks |-> chunk_tracks]

----------------------------------------------------------------------------
(* build_web_data as a state machine: the rows of the CSV are read one by   *)
(* one, then the chunks and the two indexes are written.  Of a track the    *)
(* model keeps the id (the number in "track-00000"), the names and the      *)
(* slugs.                                                                   *)

MaxRows == 3

ArtistValues ==
    {
     \* "AC/DC"
     <<65, 67, 47, 68, 67>>,
     \* "acdc"
     <<97, 99, 100, 99>>,
     \* "AC DC"
     <<65, 67, 32, 68, 67>>,
     \* ""
     <<>>,
     \* "?"
     <<63>>
    }

AlbumValues ==
    {
     \* "Hits"
     <<72, 105, 116, 115>>,
     \* "hits!"
     <<104, 105, 116, 115, 33>>,
     \* ""
     <<>>
    }

\* the rows the reader can yield: a row with a name for every artist and
\* album value, and a row whose name is blank
CsvRows ==
    {[Name |-> <<120>>, Artist |-> a, Album |-> b] : a \in ArtistValues, b \in AlbumValues}
    \cup {[Name |-> <<32>>, Artist |-> <<65, 67, 47, 68, 67>>, Album |-> <<72, 105, 116, 115>>]}

WebIdle ==
    /\ rows_read = 0
    /\ tracks = <<>>
    /\ artists_map = <<>>
    /\ albums_map = <<>>
    /\ chunks = <<>>
    /\ artists_index = <<>>
    /\ albums_index = <<>>

----------------------------------------------------------------------------
(* main as a state machine.  The directory tree is the input.               *)

MaxCorpusLines == 4

HeaderLine == <<"Name", "Artist", "Album", "Genre", "Size", "BPM", "Location">>

MainLines == {HeaderLine, <<"Song A", "Artist A">>, <<"song a", "Artist A">>}

\* the candidate paths, in the order the trees are built
Paths == << <<"a.txt">>, <<"b", "a.txt">>, <<"Library.export.txt">> >>

\* the files of at most n lines: the empty file, a file that holds a space
\* only, an unreadable file, the readable files made of one to n of
\* MainLines, and a file whose header line follows a blank line
FilesUpTo(n) ==
    IF n < 1 THEN {}
    ELSE {[readable |-> TRUE, lines |-> c] :
             c \in (SeqsUpTo(MainLines, n) \ {<<>>}) \cup {<< <<"">> >>, << <<" ">> >>}
                   \cup (IF n >= 2 THEN {<< <<"">>, HeaderLine >>} ELSE {})}
         \cup {[readable |-> FALSE, lines |-> << <<"">> >>]}

\* the trees that hold some of the given paths, with at most budget lines in all
RECURSIVE TreesOver(_, _)
TreesOver(paths, budget) ==
    IF paths = <<>> THEN {<<>>}
    ELSE TreesOver(Tail(paths), budget)
         \cup UNION {{(Head(paths) :> f) @@ t :
                         t \in TreesOver(Tail(paths), budget - Len(f.lines))} :
                     f \in FilesUpTo(budget)}

Trees == TreesOver(Paths, MaxCorpusLines)

InitialStats ==
    [files_processed |-> 0, files_with_errors |-> 0, total_rows |-> 0,
     empty_files |-> 0, header_plus_data |-> 0, separate_header |-> 0,
     no_header |-> 0, duplicates_removed |-> 0, unique_songs |-> 0]

MainIdle ==
    /\ tree = <<>>
    /\ export_files = <<>>
    /\ i = 0
    /\ all_rows = <<>>
    /\ all_headers_sets = <<>>
    /\ all_errors = <<>>
    /\ file_formats = <<>>
    /\ stats = InitialStats
    /\ unified_headers = <<>>
    /\ deduped_rows = <<>>
    /\ duplicates_found = <<>>
    /\ output_csv = <<>>
    /\ report = <<>>
    /\ exit_status = <<>>

FnIdle ==
    /\ call = <<>>
    /\ detected = <<>>
    /\ ret = <<>>

Init ==
    /\ pc = "find"
    /\ tree \in Trees
    /\ export_files = <<>>
    /\ i = 0
    /\ all_rows = <<>>
    /\ all_headers_sets = <<>>
    /\ all_errors = <<>>
    /\ file_formats = <<>>
    /\ stats = InitialStats
    /\ unified_headers = <<>>
    /\ deduped_rows = <<>>
    /\ duplicates_found = <<>>
    /\ output_csv = <<>>
    /\ report = <<>>
    /\ exit_status = <<>>
    /\ FnIdle
    /\ WebIdle

\* the file at a path, with the name parse_export_file stamps on its records
FileAt(t, filepath) ==
    [name |-> PathName(filepath), readable |-> t[filepath].readable,
     lines |-> t[filepath].lines]

\* export_files = find_all_export_files(base_dir)
FindFiles ==
    /\ pc = "find"
    /\ export_files' = find_all_export_files(tree)
    /\ i' = 1
    /\ pc' = "parse_loop"
    /\ UNCHANGED <<tree, all_rows, all_headers_sets, all_errors, file_formats, stats,
                   unified_headers, deduped_rows, duplicates_found, output_csv,
                   report, exit_status, fnvars, webvars>>

\* one iteration of "for i, filepath in enumerate(export_files, 1)"
ParseNext ==
    /\ pc = "parse_loop"
    /\ i <= Len(export_files)
    /\ \E r \in {parse_export_file(FileAt(tree, export_files[i]))} :
       LET file == FileAt(tree, export_files[i])
           fmt == IF file.readable THEN format_of(ReadlineStrip(file.lines))
                  ELSE [format_type |-> "unknown", field_count |-> 0]
           tally == CASE fmt.format_type = "header+data" -> "header_plus_data"
                      [] fmt.format_type = "separate_header" -> "separate_header"
                      [] fmt.format_type = "no_header" -> "no_header"
                      [] OTHER -> "none"
           s1 == IF tally = "none" THEN stats ELSE [stats EXCEPT ![tally] = @ + 1]
           s2 == [s1 EXCEPT !.files_processed = @ + 1]
           s3 == IF r.errors # <<>> THEN [s2 EXCEPT !.files_with_errors = @ + 1] ELSE s2
       IN  /\ file_formats' = Append(file_formats,
                                     [filename |-> file.name,
                                      format_type |-> fmt.format_type,
                                      field_count |-> fmt.field_count])
           /\ all_errors' = all_errors \o r.errors
           /\ IF r.rows = <<>>
              THEN /\ stats' = [s3 EXCEPT !.empty_files = @ + 1]
                   /\ UNCHANGED <<all_headers_sets, all_rows>>
              ELSE /\ all_headers_sets' = Append(all_headers_sets, Range(r.headers))
                   /\ all_rows' = all_rows \o r.rows
                   /\ stats' = [s3 EXCEPT !.total_rows = @ + Len(r.rows)]
    /\ i' = i + 1
    /\ UNCHANGED <<pc, tree, export_files, unified_headers, deduped_rows,
                   duplicates_found, output_csv, report, exit_status, fnvars, webvars>>

\* unified_headers = get_unified_headers(all_headers_sets), after the loop
Unify ==
    /\ pc = "parse_loop"
    /\ i > Len(export_files)
    /\ unified_headers' = get_unified_headers(all_headers_sets)
    /\ pc' = "dedup"
    /\ UNCHANGED <<tree, export_files, i, all_rows, all_headers_sets, all_errors,
                   file_formats, stats, deduped_rows, duplicates_found, output_csv,
                   report, exit_status, fnvars, webvars>>

\* the duplicate removal and its two statistics
Dedup ==
    /\ pc = "dedup"
    /\ \E d \in {Deduplicate(all_rows, unified_headers)} :
           /\ deduped_rows' = d.deduped_rows
           /\ duplicates_found' = d.duplicates_found
           /\ stats' = [stats EXCEPT
                          !.duplicates_removed = Len(all_rows) - Len(d.deduped_rows),
                          !.unique_songs = Len(d.deduped_rows)]
    /\ pc' = "write"
    /\ UNCHANGED <<tree, export_files, i, all_rows, all_headers_sets, all_errors,
                   file_formats, unified_headers, output_csv, report, exit_status,
                   fnvars, webvars>>

\* the CSV and the validation report are written
WriteOutputs ==
    /\ pc = "write"
    /\ output_csv' = <<CsvOf(unified_headers, deduped_rows)>>
    /\ report' = <<[files_found |-> Len(export_files),
                    stats |-> stats,
                    unique_fields |-> Len(unified_headers),
                    field_names |-> unified_headers,
                    file_formats |-> file_formats,
                    errors |-> all_errors]>>
    /\ pc' = "return"
    /\ UNCHANGED <<tree, export_files, i, all_rows, all_headers_sets, all_errors,
                   file_formats, stats, unified_headers, deduped_rows,
                   duplicates_found, exit_status, fnvars, webvars>>

\* the summary is printed and main returns its status
Return ==
    /\ pc = "return"
    /\ exit_status' = <<ExitStatus(stats)>>
    /\ pc' = "done"
    /\ UNCHANGED <<tree, export_files, i, all_rows, all_headers_sets, all_errors,
                   file_formats, stats, unified_headers, deduped_rows,
                   duplicates_found, output_csv, report, fnvars, webvars>>

Next == FindFiles \/ ParseNext \/ Unify \/ Dedup \/ WriteOutputs \/ Return

Spec == Init /\ [][Next]_vars

----------------------------------------------------------------------------
(* Inputs of the parser's specification: first lines made of leading        *)
(* fields, a run of header labels, an optional Location, data fields, and   *)
(* an optional late Location; then a few further lines.                     *)

MaxLead == 12

MaxData == 8

MaxRestLines == 1

LabelRun == <<"Name", "Artist", "Album", "Genre", "Size", "Time">>

FirstLineOf(a, e, k, loc, b, loc2) ==
    [j \in 1..a |-> IF e THEN "" ELSE ToString(100 + j)]
    \o Take(LabelRun, k)
    \o (IF loc THEN <<"Location">> ELSE <<>>)
    \o [j \in 1..b |-> ToString(j)]
    \o (IF loc2 THEN <<"Location">> ELSE <<>>)

FirstLines ==
    {l \in {FirstLineOf(a, e, k, loc, b, loc2) :
                a \in 0..MaxLead, e \in BOOLEAN, k \in 0..Len(LabelRun),
                loc \in BOOLEAN, b \in 0..MaxData, loc2 \in BOOLEAN} :
        l # <<>>}

RestLines ==
    {<<"Song B", "Artist B", "Album B">>, <<"">>, [j \in 1..28 |-> ToString(200 + j)]}

ParseInputs ==
    {[name |-> "a.txt", readable |-> TRUE, lines |-> <<l>> \o rest] :
        l \in FirstLines, rest \in SeqsUpTo(RestLines, MaxRestLines)}

InitParse ==
    /\ pc = "detect"
    /\ call \in ParseInputs
    /\ detected = <<>>
    /\ ret = <<>>
    /\ MainIdle
    /\ WebIdle

\* parse_export_file up to its call of detect_header_pattern on lines[0]
Detect ==
    /\ pc = "detect"
    /\ LET first_line == StripSplitLines(call.lines)[1]
       IN  detected' = <<[line |-> first_line,
                          verdict |-> detect_header_pattern(first_line)]>>
    /\ pc' = "parse"
    /\ UNCHANGED <<call, ret, mainvars, webvars>>

\* the rest of parse_export_file, to its return
Parse ==
    /\ pc = "parse"
    /\ ret' = <<parse_export_file(call)>>
    /\ pc' = "parsed"
    /\ UNCHANGED <<call, detected, mainvars, webvars>>

NextParse == Detect \/ Parse

SpecParse == InitParse /\ [][NextParse]_vars

----------------------------------------------------------------------------
(* get_unified_headers on its own: a list of header sets, then the same     *)
(* sets in another order.                                                   *)

MaxHeaderSets == 2

UnifyNames == {"Name", "Artist", "BPM", "bpm", "_source_file"}

InitUnify ==
    /\ pc = "unify_call"
    /\ call \in SeqsUpTo(SUBSET UnifyNames, MaxHeaderSets)
    /\ detected = <<>>
    /\ ret = <<>>
    /\ MainIdle
    /\ WebIdle

\* get_unified_headers(all_headers)
UnifyCall ==
    /\ pc = "unify_call"
    /\ ret' = <<get_unified_headers(call)>>
    /\ pc' = "unify_again"
    /\ UNCHANGED <<call, detected, mainvars, webvars>>

\* get_unified_headers on the same header sets, listed in any order
UnifyPermuted ==
    /\ pc = "unify_again"
    /\ \E perm \in Permutations(1..Len(call)) :
          /\ call' = [k \in 1..Len(call) |-> call[perm[k]]]
          /\ ret' = Append(ret, get_unified_headers(call'))
    /\ pc' = "unify_done"
    /\ UNCHANGED <<detected, mainvars, webvars>>

NextUnify == UnifyCall \/ UnifyPermuted

SpecUnify == InitUnify /\ [][NextUnify]_vars

----------------------------------------------------------------------------
(* build_web_data: the row loop, the chunk loop and the indexes.            *)

InitWeb ==
    /\ pc = "read"
    /\ WebIdle
    /\ FnIdle
    /\ MainIdle

\* one iteration of "for row in reader"
ReadRow ==
    /\ pc = "read"
    /\ rows_read < MaxRows
    /\ \E row \in CsvRows :
          LET track_name == strip(row.Name)
              artist_name == ArtistNameOf(row)
              album_name == AlbumNameOf(row)
              track_id == Len(tracks)
              artist_slug == slugify(artist_name)
              album_slug == slugify(album_name)
          IN  IF \/ track_name = <<>>
                 \/ ~is_valid_name(artist_name)
                 \/ ~is_valid_name(album_name)
              THEN UNCHANGED <<tracks, artists_map, albums_map>>
              ELSE /\ tracks' = Append(tracks,
                                      [id |-> track_id, name |-> track_name,
                                       artist |-> artist_name, artistSlug |-> artist_slug,
                                       album |-> album_name, albumSlug |-> album_slug])
                   /\ artists_map' = IndexAdd(artists_map, artist_slug, artist_name,
                                              album_name, track_id)
                   /\ albums_map' = IndexAdd(albums_map, album_slug, album_name,
                                             artist_name, track_id)
    /\ rows_read' = rows_read + 1
    /\ UNCHANGED <<pc, chunks, artists_index, albums_index, fnvars, mainvars>>

\* the reader is exhausted
EndOfRows ==
    /\ pc = "read"
    /\ pc' = "chunks"
    /\ UNCHANGED <<webvars, fnvars, mainvars>>

\* one iteration of "for i in range(total_chunks)"
WriteChunk ==
    /\ pc = "chunks"
    /\ Len(chunks) < total_chunks(Len(tracks))
    /\ chunks' = Append(chunks, chunk_data(tracks, Len(chunks)))
    /\ UNCHANGED <<pc, rows_read, tracks, artists_map, albums_map, artists_index,
                   albums_index, fnvars, mainvars>>

\* artists-index.json and albums-index.json are written, after the chunks
WriteIndexes ==
    /\ pc = "chunks"
    /\ Len(chunks) >= total_chunks(Len(tracks))
    /\ artists_index' = <<IndexOf(artists_map)>>
    /\ albums_index' = <<IndexOf(albums_map)>>
    /\ pc' = "built"
    /\ UNCHANGED <<rows_read, tracks, artists_map, albums_map, chunks, fnvars, mainvars>>

NextWeb == ReadRow \/ EndOfRows \/ WriteChunk \/ WriteIndexes

SpecWeb == InitWeb /\ [][NextWeb]_vars

\* The chunk loop on its own: any number of accepted tracks up to MaxTracks.
MaxTracks == 2001

InitChunk ==
    /\ pc = "chunks"
    /\ \E n \in 0..MaxTracks : tracks = [k \in 1..n |-> [id |-> k - 1]]
    /\ rows_read = 0
    /\ artists_map = <<>>
    /\ albums_map = <<>>
    /\ chunks = <<>>
    /\ artists_index = <<>>
    /\ albums_index = <<>>
    /\ FnIdle
    /\ MainIdle

NextChunk == WriteChunk \/ WriteIndexes

SpecChunk == InitChunk /\ [][NextChunk]_vars

----------------------------------------------------------------------------
(* Claims about detect_header_pattern and parse_export_file (SpecParse).    *)

LabelsAmongFirst(fields, n) ==
    Cardinality({k \in 1..Len(fields) : k <= n /\ fields[k] \in DetectStandardHeaders})

\* row is the record of the values zipped by position against names (the
\* empty string where the values run out), stamped with file and line ln
PositionalRow(row, names, values, file, ln) ==
    /\ DOMAIN row = Range(names) \cup ProvenanceColumns
    /\ row["_source_file"] = file
    /\ row["_line_number"] = ln
    /\ \A m \in 1..Len(names) :
          row[names[m]] = IF m <= Len(values) THEN values[m] ELSE ""

\* rows are the records of the non-blank lines of lines from position 2 on,
\* in line order
LaterLinesAreRows(rows, names, lines, file) ==
    LET idxs == {k \in 2..Len(lines) : ~IsBlankLine(lines[k])}
    IN  /\ Len(rows) = Cardinality(idxs)
        /\ \A j \in 1..Len(rows) :
              /\ rows[j]["_line_number"] \in idxs
              /\ j > 1 => rows[j - 1]["_line_number"] < rows[j]["_line_number"]
              /\ PositionalRow(rows[j], names, lines[rows[j]["_line_number"]],
                               file, rows[j]["_line_number"])

\* C3: detect_header_pattern answers header-present iff at least 5 of the
\* first 15 fields of the line are known header labels; with fewer it answers
\* (False, 0) and parse_export_file uses the 26 fixed names as the headers.
C3_HeaderIffFiveOfFirstFifteen ==
    pc = "parsed" =>
        LET line == detected[1].line
            v == detected[1].verdict
            n == LabelsAmongFirst(line, 15)
        IN  /\ v.has_header <=> n >= 5
            /\ n < 5 =>
                  /\ v = [has_header |-> FALSE, num_header_fields |-> 0]
                  /\ ret[1].headers = standard_headers
                  /\ Len(ret[1].headers) = 26

\* C3 witness: a line with 4 labels among its first 15 fields and more
\* further right is parsed as a file without header.
C3_Witness ==
    /\ pc = "parsed"
    /\ LabelsAmongFirst(detected[1].line, 15) = 4
    /\ LabelsAmongFirst(detected[1].line, Len(detected[1].line)) >= 5
    /\ ~detected[1].verdict.has_header
    /\ ret[1].headers = standard_headers

\* C4: for a header-present first line of n fields with split point s, the
\* column names are its first s fields; if n > s + 5 the first record is
\* stamped line 1 and holds the fields after the split point by position, and
\* the later lines follow as records; if n <= s + 5 line 1 gives no record and
\* the records are those of the lines from line 2 on.
C4_InlineOrSeparateHeader ==
    (pc = "parsed" /\ detected[1].verdict.has_header) =>
        LET f == detected[1].line
            n == Len(f)
            s == detected[1].verdict.num_header_fields
            names == SubSeq(f, 1, s)
            lines == StripSplitLines(call.lines)
            rows == ret[1].rows
        IN  /\ ret[1].headers = names
            /\ IF n > s + 5
               THEN /\ Len(rows) >= 1
                    /\ PositionalRow(rows[1], names, SubSeq(f, s + 1, n), call.name, 1)
                    /\ LaterLinesAreRows(Tail(rows), names, lines, call.name)
               ELSE LaterLinesAreRows(rows, names, lines, call.name)

\* C4 witness: 7 header labels ending in Location followed by 7 data fields,
\* and a second line: the inline record and the record of line 2.
C4_Witness ==
    /\ pc = "parsed"
    /\ detected[1].verdict = [has_header |-> TRUE, num_header_fields |-> 7]
    /\ Len(detected[1].line) = 14
    /\ detected[1].line[1] = "Name"
    /\ detected[1].line[7] = "Location"
    /\ Len(ret[1].rows) = 2
    /\ ret[1].rows[1]["Name"] = detected[1].line[8]
    /\ ret[1].rows[2]["_line_number"] = 2

----------------------------------------------------------------------------
(* Claims about main (Spec).                                                *)

\* two records have identical values in every canonical column other than
\* the provenance columns, a column a record lacks counting as ""
SameContent(r1, r2) ==
    \A c \in Range(unified_headers) \ {"_source_file", "_line_number"} :
        Get(r1, c, "") = Get(r2, c, "")

\* the positions of all_rows with no content-identical earlier position
FirstOccurrences ==
    {k \in 1..Len(all_rows) :
        \A j \in 1..(k - 1) : ~SameContent(all_rows[j], all_rows[k])}

\* the k-th smallest element of a set of numbers
RECURSIVE KthSmallest(_, _)
KthSmallest(S, k) ==
    LET m == CHOOSE x \in S : \A y \in S : x <= y
    IN  IF k = 1 THEN m ELSE KthSmallest(S \ {m}, k - 1)

\* C1: a record is kept iff no earlier record of the traversal has the same
\* content; so no two kept records have the same content, every input content
\* is that of exactly one kept record, and duplicates_removed is the number of
\* input records minus the number of kept records.
C1_DedupByContent ==
    pc = "done" =>
        /\ deduped_rows = [a \in 1..Cardinality(FirstOccurrences) |->
                              all_rows[KthSmallest(FirstOccurrences, a)]]
        /\ \A a, b \in 1..Len(deduped_rows) :
              a # b => ~SameContent(deduped_rows[a], deduped_rows[b])
        /\ \A k \in 1..Len(all_rows) :
              Cardinality({a \in 1..Len(deduped_rows) :
                              SameContent(deduped_rows[a], all_rows[k])}) = 1
        /\ stats.duplicates_removed = Len(all_rows) - Len(deduped_rows)
        /\ stats.unique_songs = Len(deduped_rows)

\* C1 witness: a record of one file and a record of another file with another
\* column set have the same content, and one of the two was removed.
C1_Witness ==
    /\ pc = "done"
    /\ stats.duplicates_removed >= 1
    /\ Len(deduped_rows) = 2
    /\ \E j, k \in 1..Len(all_rows) :
          /\ j < k
          /\ SameContent(all_rows[j], all_rows[k])
          /\ DOMAIN all_rows[j] # DOMAIN all_rows[k]
          /\ all_rows[j]["_source_file"] # all_rows[k]["_source_file"]

\* the position in all_rows of the first record with the content of r
FirstPosition(r) ==
    CHOOSE k \in 1..Len(all_rows) :
        /\ SameContent(all_rows[k], r)
        /\ \A j \in 1..(k - 1) : ~SameContent(all_rows[j], r)

\* the records of the files of a list of paths, file after file
RECURSIVE RowsOfFiles(_)
RowsOfFiles(paths) ==
    IF paths = <<>> THEN <<>>
    ELSE parse_export_file(FileAt(tree, Head(paths))).rows \o RowsOfFiles(Tail(paths))

\* C2: the files are traversed in sorted path order and each file's records
\* in line order; every kept record is the first record of all_rows with its
\* content, with that record's _source_file and _line_number, and the kept
\* records stand in the order of those first records.
C2_DedupStable ==
    pc = "done" =>
        /\ \A a, b \in 1..Len(export_files) :
              a < b => ~PathLess(export_files[b], export_files[a])
        /\ all_rows = RowsOfFiles(export_files)
        /\ \A p \in Range(export_files) :
              LET rows == parse_export_file(FileAt(tree, p)).rows
              IN  \A a, b \in 1..Len(rows) :
                      a < b => rows[a]["_line_number"] < rows[b]["_line_number"]
        /\ \A a \in 1..Len(deduped_rows) :
              /\ deduped_rows[a] = all_rows[FirstPosition(deduped_rows[a])]
              /\ \A b \in 1..Len(deduped_rows) :
                    a < b => FirstPosition(deduped_rows[a]) < FirstPosition(deduped_rows[b])

\* C2 witness: a record of a.txt has the content of a record of
\* Library.export.txt, which sorts before a.txt, and the record kept is the
\* one of Library.export.txt.
C2_Witness ==
    /\ pc = "done"
    /\ Len(deduped_rows) = 1
    /\ deduped_rows[1]["_source_file"] = "Library.export.txt"
    /\ deduped_rows[1]["_line_number"] = 2
    /\ \E k \in 1..Len(all_rows) :
          /\ all_rows[k]["_source_file"] = "a.txt"
          /\ all_rows[k]["_line_number"] = 1
          /\ SameContent(all_rows[k], deduped_rows[1])

\* the header parse_export_file declares or infers for the file at a path
HeaderOf(p) == Range(parse_export_file(FileAt(tree, p)).headers)

\* C5 as claimed: every column name of the header of every input file is in
\* the canonical schema, also for files with a header and no data row and for
\* empty files.
C5_EveryFileHeaderInSchema ==
    pc = "done" =>
        \A p \in Range(export_files) : HeaderOf(p) \subseteq Range(unified_headers)

\* C5 amended: every column name of the header of every input file that
\* contributes at least one record is in the canonical schema.
C5_HeadersOfFilesWithRowsInSchema ==
    pc = "done" =>
        \A p \in Range(export_files) :
            parse_export_file(FileAt(tree, p)).rows # <<>>
                => HeaderOf(p) \subseteq Range(unified_headers)

\* C5 witness: a file with records whose header has the column BPM, next to a
\* file that has a header and no record.
C5_Witness ==
    /\ pc = "done"
    /\ "BPM" \in Range(unified_headers)
    /\ \E p, q \in Range(export_files) :
          /\ parse_export_file(FileAt(tree, p)).rows # <<>>
          /\ "BPM" \in HeaderOf(p)
          /\ parse_export_file(FileAt(tree, q)).rows = <<>>
          /\ "BPM" \in HeaderOf(q)

\* the positions of export_files whose file cannot be opened or read
UnreadablePositions == {k \in 1..Len(export_files) : ~tree[export_files[k]].readable}

IsReadablePath(p) == tree[p].readable

\* C7: a file whose open or read fails gives no record and exactly one error
\* string; every file of the list is processed, and all_rows holds what the
\* list without the failing files gives.
C7_UnreadableFileIsSkipped ==
    pc = "done" =>
        /\ stats.files_processed = Len(export_files)
        /\ Len(file_formats) = Len(export_files)
        /\ Len(all_errors) = Cardinality(UnreadablePositions)
        /\ \A k \in UnreadablePositions :
              Cardinality({e \in 1..Len(all_errors) :
                              all_errors[e].file = PathName(export_files[k])})
              = Cardinality({u \in UnreadablePositions :
                                PathName(export_files[u]) = PathName(export_files[k])})
        /\ stats.files_with_errors = Cardinality(UnreadablePositions)
        /\ all_rows = RowsOfFiles(SelectSeq(export_files, IsReadablePath))
        /\ stats.total_rows = Len(all_rows)

\* C7 witness: the first file of the list cannot be read, a later file gives
\* records, and the run has ended.
C7_Witness ==
    /\ pc = "done"
    /\ Len(export_files) >= 2
    /\ 1 \in UnreadablePositions
    /\ Len(all_errors) = 1
    /\ all_errors[1] = ErrorReading(PathName(export_files[1]))
    /\ all_rows # <<>>

\* C8: main returns 0 iff the deduplicated output holds at least one record
\* and 1 otherwise, and when it returns the CSV and the report are written.
C8_ExitStatus ==
    /\ pc # "done" => exit_status = <<>>
    /\ pc = "done" =>
          /\ output_csv # <<>>
          /\ report # <<>>
          /\ exit_status \in {<<0>>, <<1>>}
          /\ exit_status = <<0>> <=> Len(output_csv[1].rows) >= 1
          /\ Len(output_csv[1].rows) = Len(deduped_rows)

\* C8 witness: every file of a non-empty list failed or was empty; both
\* outputs are written and main has returned 1.
C8_Witness ==
    /\ pc = "done"
    /\ Len(export_files) >= 2
    /\ UnreadablePositions # {}
    /\ stats.empty_files = Len(export_files)
    /\ exit_status = <<1>>
    /\ output_csv # <<>>
    /\ output_csv[1].rows = <<>>
    /\ report # <<>>
    /\ report[1].errors # <<>>

----------------------------------------------------------------------------
(* Claims about get_unified_headers (SpecUnify).                            *)

\* the 1-based position of x in a sequence without repetition
PositionIn(s, x) == CHOOSE k \in 1..Len(s) : s[k] = x

\* r is: the preferred names among U in preferred order, then the other
\* names of U except the provenance names in code point order, then the two
\* provenance names
IsCanonicalOrder(r, U) ==
    LET pref == U \cap Range(preferred_order)
        rest == (U \ Range(preferred_order)) \ {"_source_file", "_line_number"}
        a == Cardinality(pref)
        b == Cardinality(rest)
    IN  /\ Len(r) = a + b + 2
        /\ {r[k] : k \in 1..a} = pref
        /\ \A j, k \in 1..a :
              j < k => PositionIn(preferred_order, r[j]) < PositionIn(preferred_order, r[k])
        /\ {r[k] : k \in (a + 1)..(a + b)} = rest
        /\ \A j, k \in (a + 1)..(a + b) : j < k => StrLess(r[j], r[k])
        /\ r[a + b + 1] = "_source_file"
        /\ r[a + b + 2] = "_line_number"

\* C6: get_unified_headers returns the preferred names of the union in
\* preferred order, the remaining names sorted, then the provenance names; no
\* name occurs twice, and the result is the same for the header sets listed in
\* any other order.
C6_UnifiedHeadersCanonical ==
    /\ \A n \in 1..Len(ret) :
          /\ IsCanonicalOrder(ret[n], UNION Range(call))
          /\ \A j, k \in 1..Len(ret[n]) : j # k => ret[n][j] # ret[n][k]
    /\ pc = "unify_done" => ret[1] = ret[2]

\* C6 witness: two different header sets, with names outside the preferred
\* list and a provenance name among them, unified in both orders.
C6_Witness ==
    /\ pc = "unify_done"
    /\ Len(call) = 2
    /\ call[1] = {"Name", "bpm", "_source_file"}
    /\ call[2] = {"Artist", "BPM"}
    /\ ret[1] = <<"Name", "Artist", "BPM", "bpm", "_source_file", "_line_number">>
    /\ ret[2] = ret[1]

----------------------------------------------------------------------------
(* Claims about build_web_data (SpecWeb, SpecChunk).                        *)

\* the positions in tracks of the records of an artist slug group
ArtistGroup(slug) == {k \in 1..Len(tracks) : tracks[k].artistSlug = slug}

\* the positions in tracks of the records of an album slug group
AlbumGroup(slug) == {k \in 1..Len(tracks) : tracks[k].albumSlug = slug}

FirstOf(S) == CHOOSE k \in S : \A m \in S : k <= m

LastOf(S) == CHOOSE k \in S : \A m \in S : m <= k

\* C9, as stated: in the artist index and in the album index, the display
\* name of each slug group is the name of the first record of the group.
C9_DisplayNameFirstSeen ==
    pc = "built" =>
        /\ \A e \in Range(artists_index[1].entries) :
               e.name = tracks[FirstOf(ArtistGroup(e.slug))].artist
        /\ \A e \in Range(albums_index[1].entries) :
               e.name = tracks[FirstOf(AlbumGroup(e.slug))].album

\* C9, amended: the two indexes have one entry for each slug group of the
\* accepted records, and the display name of each slug group is the name of
\* the last record of the group (last-seen casing).
C9_DisplayNameLastSeen ==
    pc = "built" =>
        /\ {e.slug : e \in Range(artists_index[1].entries)}
               = {tracks[k].artistSlug : k \in 1..Len(tracks)}
        /\ {e.slug : e \in Range(albums_index[1].entries)}
               = {tracks[k].albumSlug : k \in 1..Len(tracks)}
        /\ \A e \in Range(artists_index[1].entries) :
               e.name = tracks[LastOf(ArtistGroup(e.slug))].artist
        /\ \A e \in Range(albums_index[1].entries) :
               e.name = tracks[LastOf(AlbumGroup(e.slug))].album

\* the indexes are built from records in which an artist slug group and an
\* album slug group each begin and end with different names
C9_Witness ==
    /\ pc = "built"
    /\ \E e \in Range(artists_index[1].entries) :
          LET g == ArtistGroup(e.slug)
          IN  /\ tracks[FirstOf(g)].artist # tracks[LastOf(g)].artist
              /\ e.name = tracks[LastOf(g)].artist
    /\ \E e \in Range(albums_index[1].entries) :
          LET g == AlbumGroup(e.slug)
          IN  /\ tracks[FirstOf(g)].album # tracks[LastOf(g)].album
              /\ e.name = tracks[LastOf(g)].album

\* C10: with page size 1000 and n accepted tracks, there are ceil(n / 1000)
\* chunks (none when n = 0); chunk j (from 1) holds the tracks at offsets
\* (j-1)*1000 .. min(j*1000, n)-1 in order; every chunk but the last holds
\* 1000 tracks and the last between 1 and 1000; 'chunk' is j, 'totalChunks'
\* is the number of chunks in every chunk, 'count' is the number of tracks
\* the chunk holds.
C10_ChunksPartitionTracks ==
    pc = "built" =>
        LET n == Len(tracks)
            P == 1000
            c == Len(chunks)
        IN  /\ n = 0 => c = 0
            /\ n > 0 => (c - 1) * P < n /\ n <= c * P
            /\ \A j \in 1..c :
                  LET lo == (j - 1) * P
                      hi == Min(j * P, n)
                  IN  /\ chunks[j].tracks = [k \in 1..(hi - lo) |-> tracks[lo + k]]
                      /\ j < c => Len(chunks[j].tracks) = P
                      /\ j = c => Len(chunks[j].tracks) >= 1 /\ Len(chunks[j].tracks) <= P
                      /\ chunks[j].chunk = j
                      /\ chunks[j].totalChunks = chunks[1].totalChunks
                      /\ chunks[j].totalChunks = c
                      /\ chunks[j].count = Len(chunks[j].tracks)

\* three chunks are written: two full ones and a last one of a single track
C10_Witness ==
    /\ pc = "built"
    /\ Len(tracks) = 2001
    /\ Len(chunks) = 3
    /\ chunks[2].count = 1000
    /\ chunks[3].count = 1

----------------------------------------------------------------------------
(* sanitize_artist_name on its own: a name made of a run of quotes and      *)
(* spaces, a core, an ending and another run of quotes and spaces.          *)

MaxWrap == 3

\* the runs of double quotes and spaces of at most n characters
WrapRuns(n) == SeqsUpTo({34, 32}, n)

NameCores ==
    {
     \* ""
     <<>>,
     \* "x"
     <<120>>,
     \* "B "
     <<66, 32>>,
     \* "X, A"
     <<88, 44, 32, 65>>,
     \* "x"y"
     <<120, 34, 121>>
    }

NameEndings ==
    {
     \* ""
     <<>>,
     \* ", The"
     <<44, 32, 84, 104, 101>>,
     \* ", the"
     <<44, 32, 116, 104, 101>>,
     \* ", A"
     <<44, 32, 65>>,
     \* ", An"
     <<44, 32, 65, 110>>,
     \* ", AN"
     <<44, 32, 65, 78>>,
     \* ", Le"
     <<44, 32, 76, 101>>,
     \* ", La"
     <<44, 32, 76, 97>>,
     \* ", Los"
     <<44, 32, 76, 111, 115>>,
     \* ", Las"
     <<44, 32, 76, 97, 115>>,
     \* ", El"
     <<44, 32, 69, 108>>,
     \* ",The"
     <<44, 84, 104, 101>>,
     \* ", Th"
     <<44, 32, 84, 104>>
    }

NameInputs ==
    {a \o c \o e \o b : a \in WrapRuns(MaxWrap), c \in NameCores, e \in NameEndings,
                        b \in WrapRuns(MaxWrap)}

InitSanitize ==
    /\ pc = "sanitize_call"
    /\ \E name \in NameInputs : call = <<name>>
    /\ detected = <<>>
    /\ ret = <<>>
    /\ MainIdle
    /\ WebIdle

\* sanitize_artist_name(name)
SanitizeCall ==
    /\ pc = "sanitize_call"
    /\ ret' = <<sanitize_artist_name(call[1])>>
    /\ pc' = "sanitized"
    /\ UNCHANGED <<call, detected, mainvars, webvars>>

NextSanitize == SanitizeCall

SpecSanitize == InitSanitize /\ [][NextSanitize]_vars

----------------------------------------------------------------------------
(* Claims about sanitize_artist_name (SpecSanitize).                        *)

\* the name trimmed and with its leading and trailing quotes removed
QuoteStripped(name) == strip(StripTrailingQuotes(StripLeadingQuotes(strip(name))))

\* the positions in articles of the endings of a name, case-insensitively
MatchingArticles(name) ==
    {k \in 1..Len(articles) : endswith(lower(name), lower(articles[k]))}

\* the article at position k, one space, and the name without its ending
ArticleMoved(name, k) ==
    Drop(articles[k], 2) \o <<32>> \o Take(name, Len(name) - Len(articles[k]))

FirstMatching(name) ==
    CHOOSE k \in MatchingArticles(name) : \A m \in MatchingArticles(name) : k <= m

\* C11, as stated: if the trimmed, quote-stripped name ends with an article
\* of the list, the result is the first such article, one space and the name
\* without the ending; otherwise it is the trimmed, quote-stripped name.
C11_ArticleMovedExactly ==
    pc = "sanitized" =>
        LET name == QuoteStripped(call[1])
        IN  IF MatchingArticles(name) = {}
            THEN ret[1] = name
            ELSE ret[1] = ArticleMoved(name, FirstMatching(name))

\* C11, amended: as stated, with the whitespace at the ends of the result
\* trimmed (a name that is only the ending gives the article alone).
C11_ArticleMovedAndTrimmed ==
    pc = "sanitized" =>
        LET name == QuoteStripped(call[1])
        IN  IF MatchingArticles(name) = {}
            THEN ret[1] = name
            ELSE ret[1] = strip(ArticleMoved(name, FirstMatching(name)))

\* a quoted name that ends with an article after a core that itself ends
\* with an article: one article is moved, the other stays
C11_Witness ==
    /\ pc = "sanitized"
    /\ MatchingArticles(QuoteStripped(call[1])) # {}
    /\ QuoteStripped(call[1]) # call[1]
    /\ MatchingArticles(Take(QuoteStripped(call[1]),
                             Len(QuoteStripped(call[1])) - 5)) # {}
    /\ ret[1] = <<84, 104, 101, 32, 88, 44, 32, 65>>

----------------------------------------------------------------------------
(* safe_int and sanitize_year.  float(value) is modelled for ASCII text:    *)
(* whitespace is trimmed, then an optional sign, then "inf", "infinity" or  *)
(* "nan" in any case, or digits with an optional point and an optional      *)
(* exponent, a single underscore being allowed between two digits.  The     *)
(* integer part is exact for the values of the model, which have fewer      *)
(* than 10 integer digits or more than 309 (these overflow to infinity).    *)

IsDigit(c) == c >= 48 /\ c <= 57

\* digit (["_"] digit)*
IsDigitPart(t) ==
    /\ t # <<>>
    /\ \A k \in 1..Len(t) :
          \/ IsDigit(t[k])
          \/ /\ t[k] = 95
             /\ k > 1
             /\ k < Len(t)
             /\ IsDigit(t[k - 1])
             /\ IsDigit(t[k + 1])

\* the digits of a digit part
DigitsOf(t) == SelectSeq(t, IsDigit)

\* the first position of one of the characters cs in t, 0 when there is none
FirstOfChars(t, cs) ==
    IF \E k \in 1..Len(t) : t[k] \in cs
    THEN CHOOSE k \in 1..Len(t) : t[k] \in cs /\ \A m \in 1..(k - 1) : t[m] \notin cs
    ELSE 0

RECURSIVE StripLeadingZeros(_)
StripLeadingZeros(t) ==
    IF t # <<>> /\ Head(t) = 48 THEN StripLeadingZeros(Tail(t)) ELSE t

\* the number written by a sequence of digits
RECURSIVE NumberOf(_)
NumberOf(t) ==
    IF t = <<>> THEN 0 ELSE NumberOf(SubSeq(t, 1, Len(t) - 1)) * 10 + (t[Len(t)] - 48)

\* the largest number of integer digits of a finite float
FloatMaxDigits == 309

\* t without a leading sign
Unsigned(t) == IF t # <<>> /\ Head(t) \in {43, 45} THEN Tail(t) ELSE t

\* the mantissa of a number text: what precedes the first "e" or "E"
MantissaOf(t) ==
    LET e == FirstOfChars(t, {101, 69}) IN IF e = 0 THEN t ELSE SubSeq(t, 1, e - 1)

\* the exponent of a number text: <<>> when there is no "e", else <<text>>
ExponentOf(t) ==
    LET e == FirstOfChars(t, {101, 69}) IN IF e = 0 THEN <<>> ELSE <<Drop(t, e)>>

IntPartOf(m) ==
    LET d == FirstOfChars(m, {46}) IN IF d = 0 THEN m ELSE SubSeq(m, 1, d - 1)

FracPartOf(m) ==
    LET d == FirstOfChars(m, {46}) IN IF d = 0 THEN <<>> ELSE Drop(m, d)

IsMantissa(m) ==
    IF FirstOfChars(m, {46}) = 0 THEN IsDigitPart(m)
    ELSE /\ IntPartOf(m) = <<>> \/ IsDigitPart(IntPartOf(m))
         /\ FracPartOf(m) = <<>> \/ IsDigitPart(FracPartOf(m))
         /\ IntPartOf(m) # <<>> \/ FracPartOf(m) # <<>>

IsExponent(x) == x = <<>> \/ IsDigitPart(Unsigned(x[1]))

\* the value of the exponent of a number text
ExponentValue(x) ==
    IF x = <<>> THEN 0
    ELSE IF Head(x[1]) = 45 THEN 0 - NumberOf(DigitsOf(Unsigned(x[1])))
    ELSE NumberOf(DigitsOf(Unsigned(x[1])))

\* the digits before the decimal point of mantissa * 10^exponent
IntegerDigits(m, x) ==
    LET digits == DigitsOf(IntPartOf(m)) \o DigitsOf(FracPartOf(m))
        point == Len(DigitsOf(IntPartOf(m))) + ExponentValue(x)
        significant == StripLeadingZeros(digits)
        lead == Len(digits) - Len(significant)
    IN  IF significant = <<>> \/ point <= lead THEN <<>>
        ELSE IF point <= Len(digits) THEN SubSeq(digits, lead + 1, point)
        ELSE significant \o [k \in 1..(point - Len(digits)) |-> 48]

\* float(text): [kind |-> "invalid"] for a ValueError, else "nan", "inf" or
\* "finite" with the sign and the integer part of the magnitude
float(text) ==
    LET t == strip(text)
        negative == t # <<>> /\ Head(t) = 45
        body == Unsigned(t)
        m == MantissaOf(body)
        x == ExponentOf(body)
    IN  IF lower(body) \in { <<105, 110, 102>>,
                             <<105, 110, 102, 105, 110, 105, 116, 121>> }
        THEN [kind |-> "inf", negative |-> negative, magnitude |-> 0]
        ELSE IF lower(body) = <<110, 97, 110>>
        THEN [kind |-> "nan", negative |-> negative, magnitude |-> 0]
        ELSE IF ~(IsMantissa(m) /\ IsExponent(x))
        THEN [kind |-> "invalid", negative |-> negative, magnitude |-> 0]
        ELSE IF Len(IntegerDigits(m, x)) > FloatMaxDigits
        THEN [kind |-> "inf", negative |-> negative, magnitude |-> 0]
        ELSE [kind |-> "finite", negative |-> negative,
              magnitude |-> NumberOf(IntegerDigits(m, x))]

\* value: None or <<text>>.  The result is the integer returned, or the
\* exception that leaves the function.
safe_int(value, default) ==
    IF value = None THEN [raises |-> "", value |-> default]
    ELSE IF value[1] = <<>> \/ strip(value[1]) = <<>>
    THEN [raises |-> "", value |-> default]
    ELSE LET f == float(value[1])
         IN  CASE f.kind = "invalid" -> [raises |-> "", value |-> default]
               [] f.kind = "nan" -> [raises |-> "", value |-> default]
               [] f.kind = "inf" -> [raises |-> "OverflowError", value |-> default]
               [] f.kind = "finite" ->
                      [raises |-> "",
                       value |-> IF f.negative THEN 0 - f.magnitude ELSE f.magnitude]

\* current_year is datetime.now().year.  The result is None or <<year>>, or
\* the exception that leaves the function.
sanitize_year(value, current_year) ==
    LET y == safe_int(value, 0)
    IN  IF y.raises # "" THEN [raises |-> y.raises, value |-> None]
        ELSE IF y.value <= 0 THEN [raises |-> "", value |-> None]
        ELSE IF 1000 <= y.value /\ y.value <= current_year
        THEN [raises |-> "", value |-> Some(y.value)]
        ELSE [raises |-> "", value |-> None]

----------------------------------------------------------------------------
(* sanitize_year on its own: a year text made of a sign, digits, a fraction *)
(* and an exponent, bare or between spaces, and a few other texts.          *)

MaxYearDigits == 3

YearDigits ==
    SeqsUpTo({48, 49, 57}, MaxYearDigits) \cup
    {
     \* "1899"
     <<49, 56, 57, 57>>,
     \* "1000"
     <<49, 48, 48, 48>>,
     \* "999"
     <<57, 57, 57>>,
     \* "2025"
     <<50, 48, 50, 53>>,
     \* "2026"
     <<50, 48, 50, 54>>,
     \* "2027"
     <<50, 48, 50, 55>>,
     \* "2028"
     <<50, 48, 50, 56>>,
     \* "3000"
     <<51, 48, 48, 48>>,
     \* "1_899"
     <<49, 95, 56, 57, 57>>,
     \* "1__0"
     <<49, 95, 95, 48>>,
     \* "_1"
     <<95, 49>>,
     \* "1_"
     <<49, 95>>
    }

YearFractions ==
    {
     \* ""
     <<>>,
     \* "."
     <<46>>,
     \* ".9"
     <<46, 57>>,
     \* ".0"
     <<46, 48>>
    }

YearExponents ==
    {
     \* ""
     <<>>,
     \* "e3"
     <<101, 51>>,
     \* "e1"
     <<101, 49>>,
     \* "E-1"
     <<69, 45, 49>>,
     \* "e+999"
     <<101, 43, 57, 57, 57>>,
     \* "e"
     <<101>>
    }

OtherYearTexts ==
    {
     \* "inf"
     <<105, 110, 102>>,
     \* "-inf"
     <<45, 105, 110, 102>>,
     \* "+Infinity"
     <<43, 73, 110, 102, 105, 110, 105, 116, 121>>,
     \* "nan"
     <<110, 97, 110>>,
     \* "-NaN"
     <<45, 78, 97, 78>>,
     \* "abc"
     <<97, 98, 99>>,
     \* "1 899"
     <<49, 32, 56, 57, 57>>,
     \* "0x1A"
     <<48, 120, 49, 65>>,
     \* "infinit"
     <<105, 110, 102, 105, 110, 105, 116>>,
     \* "-"
     <<45>>,
     \* "e3"
     <<101, 51>>,
     \* ".e1"
     <<46, 101, 49>>
    }

YearInputs ==
    LET numbers == {s \o d \o f \o x : s \in {<<>>, <<45>>, <<43>>}, d \in YearDigits,
                                       f \in YearFractions, x \in YearExponents}
        texts == numbers \cup OtherYearTexts
    IN  {None} \cup {Some(t) : t \in texts} \cup {Some(<<32>> \o t \o <<32>>) : t \in texts}

\* the years the clock can show
CurrentYears == {2026, 2027}

InitYear ==
    /\ pc = "year_call"
    /\ \E value \in YearInputs, current_year \in CurrentYears :
          call = <<value, current_year>>
    /\ detected = <<>>
    /\ ret = <<>>
    /\ MainIdle
    /\ WebIdle

\* sanitize_year(value)
YearCall ==
    /\ pc = "year_call"
    /\ ret' = <<sanitize_year(call[1], call[2])>>
    /\ pc' = "year_done"
    /\ UNCHANGED <<call, detected, mainvars, webvars>>

NextYear == YearCall

SpecYear == InitYear /\ [][NextYear]_vars

----------------------------------------------------------------------------
(* Claims about sanitize_year (SpecYear).                                   *)

\* C12: sanitize_year never fails; it returns the truncated parsed value
\* when that integer lies in [1000, current year] and absent for every other
\* input (below 1000, above the current year, empty, not a number).
C12_YearInRangeOrAbsent ==
    pc = "year_done" =>
        /\ ret[1].raises = ""
        /\ LET f == IF call[1] = None THEN [kind |-> "invalid"] ELSE float(call[1][1])
           IN  IF /\ f.kind = "finite"
                  /\ ~f.negative
                  /\ 1000 <= f.magnitude
                  /\ f.magnitude <= call[2]
               THEN ret[1].value = Some(f.magnitude)
               ELSE ret[1].value = None

----------------------------------------------------------------------------
(* Claims about the output CSV of main (Spec).                              *)

\* C13: the CSV has the canonical schema as its header row and one row per
\* retained record, in retained order; every row has as many fields as the
\* schema, a field being the record's value for the column, or "" when the
\* record has no such column; every column of a retained record is a column
\* of the schema.
C13_CsvRowsFollowSchema ==
    pc = "done" =>
        LET csv == output_csv[1]
        IN  /\ csv.fieldnames = unified_headers
            /\ Len(csv.rows) = Len(deduped_rows)
            /\ \A j \in 1..Len(deduped_rows) :
                  /\ Len(csv.rows[j]) = Len(unified_headers)
                  /\ DOMAIN deduped_rows[j] \subseteq Range(unified_headers)
                  /\ \A k \in 1..Len(unified_headers) :
                        csv.rows[j][k] =
                            IF unified_headers[k] \in DOMAIN deduped_rows[j]
                            THEN deduped_rows[j][unified_headers[k]]
                            ELSE ""

\* two records are written, one of a file that has the column BPM and one of
\* a file that does not, whose field for BPM is empty
C13_Witness ==
    /\ pc = "done"
    /\ Len(deduped_rows) >= 2
    /\ \E j \in 1..Len(deduped_rows), k \in 1..Len(unified_headers) :
          /\ unified_headers[k] = "BPM"
          /\ "BPM" \notin DOMAIN deduped_rows[j]
          /\ output_csv[1].rows[j][k] = ""
    /\ \E j \in 1..Len(deduped_rows) : "BPM" \in DOMAIN deduped_rows[j]

----------------------------------------------------------------------------
(* Claims about the records of parse_export_file and the file as stored     *)
(* (SpecParse): call.lines is the content of the file, before any strip.    *)

\* the positions of the stored lines that are not blank, in order
RECURSIVE NonBlankFrom(_, _)
NonBlankFrom(lines, k) ==
    IF k > Len(lines) THEN <<>>
    ELSE (IF IsBlankLine(lines[k]) THEN <<>> ELSE <<k>>) \o NonBlankFrom(lines, k + 1)

\* the positions of the stored lines that records are built from: the lines
\* that are not blank, but for a header that is on a line of its own
RecordLines(lines, branch) ==
    IF branch = "separate_header" /\ NonBlankFrom(lines, 1) # <<>>
    THEN Tail(NonBlankFrom(lines, 1))
    ELSE NonBlankFrom(lines, 1)

\* C14: every record carries the file's name and the 1-based position, in the
\* file as stored, of the line it was built from (blank lines before, between
\* and after included), and the line numbers of a file strictly increase.
C14_LineNumberAsStored ==
    pc = "parsed" =>
        LET rows == ret[1].rows
            from == RecordLines(call.lines, FormatBranch(detected[1].line))
        IN  /\ \A j \in 1..Len(rows) : rows[j]["_source_file"] = call.name
            /\ \A j \in 2..Len(rows) :
                  rows[j - 1]["_line_number"] < rows[j]["_line_number"]
            /\ [j \in 1..Len(rows) |-> rows[j]["_line_number"]] = from

\* C15: with no header detected, every stored line that is not blank, the
\* first included, yields one record with the 26 fixed columns, whose value
\* for the k-th column is the k-th field of the line as stored ("" when the
\* line has fewer fields); fields beyond the 26th are ignored.
C15_NoHeaderRowsPositional ==
    pc = "parsed" /\ ~detected[1].verdict.has_header =>
        LET rows == ret[1].rows
            from == NonBlankFrom(call.lines, 1)
        IN  /\ Len(rows) = Len(from)
            /\ \A j \in 1..Len(rows) :
                  /\ DOMAIN rows[j] = Range(standard_headers) \cup ProvenanceColumns
                  /\ \A m \in 1..Len(standard_headers) :
                        rows[j][standard_headers[m]] =
                            IF m <= Len(call.lines[from[j]])
                            THEN call.lines[from[j]][m]
                            ELSE ""

\* C16, as stated: with a header detected, the split point is the position of
\* 'Location' when it is among the first 15 fields, and min(27, n div 2) when
\* it is not among them.
C16_SplitAtLocationAmongScanned ==
    pc = "parsed" /\ detected[1].verdict.has_header =>
        LET line == detected[1].line
            scanned == Take(line, 15)
        IN  detected[1].verdict.num_header_fields =
                IF "Location" \in Range(scanned)
                THEN FirstIndex(scanned, "Location")
                ELSE Min(27, Len(line) \div 2)

\* C16, amended: with a header detected, the split point is the position of
\* the first 'Location' of the whole line, and min(27, n div 2) when the line
\* has none; a 'Location' after the first 15 fields is the split point too.
C16_SplitAtLocationAnywhere ==
    pc = "parsed" /\ detected[1].verdict.has_header =>
        LET line == detected[1].line
        IN  detected[1].verdict.num_header_fields =
                IF "Location" \in Range(line)
                THEN FirstIndex(line, "Location")
                ELSE Min(27, Len(line) \div 2)

\* a header is detected on a line whose only 'Location' comes after the first
\* 15 fields, and the split point is the position of that field
C16_Witness ==
    /\ pc = "parsed"
    /\ detected[1].verdict.has_header
    /\ "Location" \notin Range(Take(detected[1].line, 15))
    /\ "Location" \in Range(detected[1].line)
    /\ detected[1].verdict.num_header_fields > 15
    /\ detected[1].line[detected[1].verdict.num_header_fields] = "Location"

----------------------------------------------------------------------------
(* Claims about the loop of main over the files (Spec).                     *)

\* the file of the current iteration of the loop of main
CurrentFile == FileAt(tree, export_files[i])

\* a readable file with no content, or with whitespace only
IsBlankFile(file) ==
    file.readable /\ \A k \in 1..Len(file.lines) : IsBlankLine(file.lines[k])

\* C17: the iteration of main for a file with no content, or with whitespace
\* only, adds no record and no error; it adds one to the empty-files tally
\* and leaves the files-with-errors tally and the error list as they were.
C17_BlankFileIsEmptyNotError ==
    [][(pc = "parse_loop" /\ i <= Len(export_files) /\ IsBlankFile(CurrentFile))
         => /\ all_rows' = all_rows
            /\ all_errors' = all_errors
            /\ stats'.empty_files = stats.empty_files + 1
            /\ stats'.files_with_errors = stats.files_with_errors
            /\ stats'.total_rows = stats.total_rows]_vars

\* main has gone through a file with no content and a file that holds a space
\* only; both are tallied as empty and the error list of the report is empty
C17_Witness ==
    /\ pc = "done"
    /\ \E p, q \in Range(export_files) :
          /\ FileAt(tree, p).readable
          /\ FileAt(tree, p).lines = << <<"">> >>
          /\ FileAt(tree, q).readable
          /\ FileAt(tree, q).lines = << <<" ">> >>
    /\ stats.empty_files >= 2
    /\ stats.files_with_errors = 0
    /\ report[1].errors = <<>>

----------------------------------------------------------------------------
(* Claims about the quotes of sanitize_artist_name (SpecSanitize).          *)

\* C18: for every input, the result of sanitize_artist_name neither begins
\* nor ends with a double quote.
C18_NoQuoteAtEitherEnd ==
    pc = "sanitized" =>
        \/ ret[1] = <<>>
        \/ /\ ret[1][1] # 34
           /\ ret[1][Len(ret[1])] # 34

\* C19: for every file whose first line could be read, the format type that
\* main lists in the report is the branch parse_export_file takes for the
\* file, and the three format tallies sum to the number of these files.
C19_ReportedFormatIsParsedFormat ==
    pc = "done" =>
        LET readable == {k \in 1..Len(export_files) : FileAt(tree, export_files[k]).readable}
        IN  /\ \A k \in readable :
                  file_formats[k].format_type =
                      FormatBranch(StripSplitLines(FileAt(tree, export_files[k]).lines)[1])
            /\ stats.header_plus_data + stats.separate_header + stats.no_header
                   = Cardinality(readable)

\* the candidate files of a tree: the files named *.txt, but for the names of
\* the outputs, and the files named Library.export*
Candidates(t) ==
    {p \in DOMAIN t :
        \/ /\ endswith(CodePoints(PathName(p)), CodePoints(".txt"))
           /\ PathName(p) \notin exclude_files
        \/ startswith(CodePoints(PathName(p)), CodePoints("Library.export"))}

\* C20: find_all_export_files returns each candidate file once, so main
\* parses each file once and 'files processed' is the number of distinct
\* candidate files.
C20_EachCandidateOnce ==
    pc = "done" =>
        /\ \A j, k \in 1..Len(export_files) : j # k => export_files[j] # export_files[k]
        /\ Range(export_files) = Candidates(tree)
        /\ stats.files_processed = Cardinality(Candidates(tree))
        /\ Len(file_formats) = Cardinality(Candidates(tree))

\* C21: in the deduplicated output no two records carry the same pair of
\* _source_file and _line_number, also when the tree holds files of the same
\* name in different directories.
C21_ProvenancePairIsUnique ==
    pc = "done" =>
        \A j, k \in 1..Len(deduped_rows) :
            j # k =>
                \/ deduped_rows[j]["_source_file"] # deduped_rows[k]["_source_file"]
                \/ deduped_rows[j]["_line_number"] # deduped_rows[k]["_line_number"]

====
